---------------------------- MODULE Spec2Model ----------------------------
(***************************************************************************)
(* A model of SquarifyLayout (src/src/squarify.ts): the squarified treemap *)
(* layout engine.                                                          *)
(*                                                                         *)
(* Numbers.  The program computes with JavaScript numbers.  The model      *)
(* computes with exact extended rationals: a number is a pair <<n, d>>     *)
(* in lowest terms, d > 0 for a finite value n/d, <<1, 0>> for +Infinity,  *)
(* <<-1, 0>> for -Infinity and <<0, 0>> for NaN.  The operators +, -, *,   *)
(* /, >=, >, ==, isNaN, Math.min, Math.max follow the IEEE rules for these *)
(* values (x/0, 0/0, Infinity*0, comparisons with NaN, ...); rounding of   *)
(* finite results is not modelled, so an equation of the model is an       *)
(* equation "within floating-point tolerance" of the program.              *)
(*                                                                         *)
(* State.  One frame per squarify call (its locals, its items and its      *)
(* bounds object) and one record per SquarifyLayout instance (its two      *)
(* private fields).  A step is the call's entry (lines 66-75), one         *)
(* iteration of the main loop (lines 77-112, layoutRow included) or the    *)
(* loop's exit; steps counts the steps each call has taken.                *)
(***************************************************************************)
EXTENDS Integers, Sequences, FiniteSets, TLC

VARIABLES call, engine, inst, steps

vars == <<call, engine, inst, steps>>

---------------------------------------------------------------------------
(* Bounds of the model. *)

MaxItems == 3
MaxWeight == 3
MaxDim == 3
MaxOrigin == 1
MaxConcItems == 2
MaxConcWeight == 1
MaxLongItems == 5
MaxSteps == 16

---------------------------------------------------------------------------
(* JavaScript numbers as exact extended rationals. *)

RECURSIVE GCD(_, _)
GCD(a, b) == IF b = 0 THEN a ELSE GCD(b, a % b)

Abs(n) == IF n < 0 THEN -n ELSE n

Sign(n) == IF n < 0 THEN -1 ELSE IF n > 0 THEN 1 ELSE 0

Norm(n, d) ==
  IF d = 0 THEN <<Sign(n), 0>>
  ELSE LET g == GCD(Abs(n), Abs(d))
       IN  <<(Sign(d) * Sign(n)) * (Abs(n) \div g), Abs(d) \div g>>

Num(n) == <<n, 1>>

Zero == <<0, 1>>

One == <<1, 1>>

NaN == <<0, 0>>

POSITIVE_INFINITY == <<1, 0>>

(* Number.MAX_VALUE: the largest finite number; here the largest integer   *)
(* the model's numbers use.  It is only ever compared, never computed with. *)
MAX_VALUE == <<2147483647, 1>>

(* A field that was never written, and the exception of line 122: neither *)
(* is a number.                                                            *)
Undefined == <<0, -1>>

ThrowEmptyRow == <<0, -2>>

isNaN(a) == a = NaN

IsFinite(a) == a[2] > 0

Add(a, b) ==
  IF IsFinite(a) /\ IsFinite(b) THEN Norm(a[1] * b[2] + b[1] * a[2], a[2] * b[2])
  ELSE IF isNaN(a) \/ isNaN(b) THEN NaN
  ELSE IF ~IsFinite(a) /\ ~IsFinite(b) THEN (IF a = b THEN a ELSE NaN)
  ELSE IF ~IsFinite(a) THEN a ELSE b

Neg(a) == <<-a[1], a[2]>>

Sub(a, b) == Add(a, Neg(b))

Mul(a, b) == Norm(a[1] * b[1], a[2] * b[2])

Div(a, b) == Norm(a[1] * b[2], a[2] * b[1])

Lt(a, b) ==
  /\ ~isNaN(a)
  /\ ~isNaN(b)
  /\ IF a[2] = 0 /\ b[2] = 0 THEN a[1] < b[1] ELSE a[1] * b[2] < b[1] * a[2]

Gt(a, b) == Lt(b, a)

(* Variant: > where the program has >=. *)
GeqStrict(a, b) == Lt(b, a)

Geq(a, b) == ~isNaN(a) /\ ~isNaN(b) /\ ~Lt(a, b)

Max(a, b) == IF isNaN(a) \/ isNaN(b) THEN NaN ELSE IF Lt(a, b) THEN b ELSE a

Min(a, b) == IF isNaN(a) \/ isNaN(b) THEN NaN ELSE IF Lt(b, a) THEN b ELSE a

Eq(a, b) == ~isNaN(a) /\ ~isNaN(b) /\ a = b

---------------------------------------------------------------------------
(* The pure parts of SquarifyLayout.  items is the heap of item objects (a *)
(* sequence of records); sorted and row hold references (indices) to them. *)

RECURSIVE sumWeights(_, _)
sumWeights(items, source) ==
  IF Len(source) = 0 THEN Zero
  ELSE Add(sumWeights(items, SubSeq(source, 1, Len(source) - 1)),
           items[source[Len(source)]].weight)

(* One insertion of the stable sort with comparator b.weight - a.weight:   *)
(* i goes behind every reference whose weight is not smaller.              *)
RECURSIVE InsertDesc(_, _, _)
InsertDesc(items, s, i) ==
  IF Len(s) = 0 THEN <<i>>
  ELSE IF Lt(items[Head(s)].weight, items[i].weight) THEN <<i>> \o s
  ELSE <<Head(s)>> \o InsertDesc(items, Tail(s), i)

RECURSIVE SortPrefix(_, _)
SortPrefix(items, n) ==
  IF n = 0 THEN <<>> ELSE InsertDesc(items, SortPrefix(items, n - 1), n)

SortDescending(items) == SortPrefix(items, Len(items))

(* The state of the loop of calculateWorstAspectRatioInRow after the first *)
(* k items of the row: minArea, maxArea, sumOfAreas.                       *)
RECURSIVE RowAreas(_, _, _, _, _)
RowAreas(items, row, k, totalArea, total) ==
  LET area == Mul(totalArea, Div(items[row[k]].weight, total))
  IN  IF k = 1 THEN [minArea |-> area, maxArea |-> area, sumOfAreas |-> area]
      ELSE LET p == RowAreas(items, row, k - 1, totalArea, total)
           IN  [minArea |-> Min(area, p.minArea),
                maxArea |-> Max(area, p.maxArea),
                sumOfAreas |-> Add(p.sumOfAreas, area)]

(* Variant: minArea where the program has maxArea. *)
WorstRatioOfMinAreaOnly(lengthSquared, a) ==
  LET sumSquared == Mul(a.sumOfAreas, a.sumOfAreas)
  IN  Max(Div(Mul(lengthSquared, a.minArea), sumSquared),
          Div(sumSquared, Mul(lengthSquared, a.minArea)))

WorstRatio(lengthSquared, a) ==
  LET sumSquared == Mul(a.sumOfAreas, a.sumOfAreas)
  IN  Max(Div(Mul(lengthSquared, a.maxArea), sumSquared),
          Div(sumSquared, Mul(lengthSquared, a.minArea)))

calculateWorstAspectRatioInRow(items, row, lengthOfShorterEdge, bounds, eng) ==
  IF Len(row) = 0 THEN ThrowEmptyRow
  ELSE IF Eq(lengthOfShorterEdge, Zero) THEN MAX_VALUE
  ELSE
    LET totalArea == Mul(bounds.width, bounds.height)
        lengthSquared == Mul(lengthOfShorterEdge, lengthOfShorterEdge)
    IN  IF Eq(eng.totalRemainingWeightSum, Zero)
        THEN LET oneItemArea == Mul(totalArea, Div(One, eng.itemsRemaining))
                 rowArea == Mul(oneItemArea, Num(Len(row)))
                 rowAreaSquared == Mul(rowArea, rowArea)
             IN  Max(Div(Mul(lengthSquared, oneItemArea), rowAreaSquared),
                     Div(rowAreaSquared, Mul(lengthSquared, oneItemArea)))
        ELSE WorstRatio(lengthSquared,
                        RowAreas(items, row, Len(row), totalArea,
                                 eng.totalRemainingWeightSum))

(* Variant: the bounds shrink but x and y stay. *)
updateBoundsKeepsOrigin(bounds, modifier) ==
  IF Gt(bounds.width, bounds.height)
  THEN [bounds EXCEPT !.width = Max(Zero, Sub(bounds.width, modifier))]
  ELSE [bounds EXCEPT !.height = Max(Zero, Sub(bounds.height, modifier))]

updateBoundsForNextRow(bounds, modifier) ==
  IF Gt(bounds.width, bounds.height)
  THEN LET newWidth == Max(Zero, Sub(bounds.width, modifier))
       IN  [bounds EXCEPT !.x = Sub(bounds.x, Sub(newWidth, bounds.width)),
                          !.width = newWidth]
  ELSE LET newHeight == Max(Zero, Sub(bounds.height, modifier))
       IN  [bounds EXCEPT !.y = Sub(bounds.y, Sub(newHeight, bounds.height)),
                          !.height = newHeight]

(* Variant: without the fallback of lines 185-187. *)
CommonItemEdgeZeroFallback(lengthOfLongerEdge, sumOfRowWeights, rowLength, eng) ==
  LET e == Mul(lengthOfLongerEdge, Div(sumOfRowWeights, eng.totalRemainingWeightSum))
  IN  IF isNaN(e) THEN Zero ELSE e

(* lengthOfCommonItemEdge of layoutRow, lines 181-191. *)
CommonItemEdge(lengthOfLongerEdge, sumOfRowWeights, rowLength, eng) ==
  LET e == Mul(lengthOfLongerEdge, Div(sumOfRowWeights, eng.totalRemainingWeightSum))
  IN  IF isNaN(e)
      THEN IF Eq(eng.totalRemainingWeightSum, Zero)
           THEN Div(Mul(lengthOfLongerEdge, Num(rowLength)), eng.itemsRemaining)
           ELSE Zero
      ELSE e

(* Variant: every item of a row gets the same share. *)
ItemRatioEqualShare(weight, sumOfRowWeights, rowLength) == Div(One, Num(rowLength))

(* ratio of layoutRow, lines 199-208. *)
ItemRatio(weight, sumOfRowWeights, rowLength) ==
  LET r == Div(weight, sumOfRowWeights)
  IN  IF isNaN(r)
      THEN IF Eq(sumOfRowWeights, Zero) \/ isNaN(sumOfRowWeights)
           THEN Div(One, Num(rowLength))
           ELSE Zero
      ELSE r

(* position before the i-th item of the row, lines 194 and 223. *)
RECURSIVE Position(_, _, _, _, _)
Position(items, row, i, lengthOfShorterEdge, sumOfRowWeights) ==
  IF i = 1 THEN Zero
  ELSE Add(Position(items, row, i - 1, lengthOfShorterEdge, sumOfRowWeights),
           Mul(lengthOfShorterEdge,
               ItemRatio(items[row[i - 1]].weight, sumOfRowWeights, Len(row))))

(* The rectangle layoutRow writes onto the i-th item of the row. *)
ItemRect(items, row, i, lengthOfShorterEdge, bounds, eng) ==
  LET horizontal == Eq(lengthOfShorterEdge, bounds.width)
      lengthOfLongerEdge == IF horizontal THEN bounds.height ELSE bounds.width
      sumOfRowWeights == sumWeights(items, row)
      lengthOfCommonItemEdge ==
        CommonItemEdge(lengthOfLongerEdge, sumOfRowWeights, Len(row), eng)
      lengthOfItemEdge ==
        Mul(lengthOfShorterEdge,
            ItemRatio(items[row[i]].weight, sumOfRowWeights, Len(row)))
      position == Position(items, row, i, lengthOfShorterEdge, sumOfRowWeights)
  IN  IF horizontal
      THEN [x |-> Add(bounds.x, position), y |-> bounds.y,
            width |-> lengthOfItemEdge, height |-> lengthOfCommonItemEdge]
      ELSE [x |-> bounds.x, y |-> Add(bounds.y, position),
            width |-> Max(Zero, lengthOfCommonItemEdge),
            height |-> Max(Zero, lengthOfItemEdge)]

(* The places of item j in the row; the loop of layoutRow writes them in   *)
(* order, so the last one decides the rectangle item j ends with.          *)
Occurrences(row, j) == {i \in 1..Len(row) : row[i] = j}

RowIndexOf(row, j) ==
  CHOOSE i \in Occurrences(row, j) : \A k \in Occurrences(row, j) : k <= i

InRow(row, j) == Occurrences(row, j) # {}

(* The decrements of lines 224 and 227, and variants without them. *)
ItemsRemainingKept(itemsRemaining, rowLength) == itemsRemaining

ItemsRemainingAfter(itemsRemaining, rowLength) ==
  Sub(itemsRemaining, Num(rowLength))

TotalRemainingKept(totalRemainingWeightSum, sumOfRowWeights) ==
  totalRemainingWeightSum

TotalRemainingAfter(totalRemainingWeightSum, sumOfRowWeights) ==
  Sub(totalRemainingWeightSum, sumOfRowWeights)

layoutRow(items, row, lengthOfShorterEdge, bounds, eng) ==
  LET horizontal == Eq(lengthOfShorterEdge, bounds.width)
      lengthOfLongerEdge == IF horizontal THEN bounds.height ELSE bounds.width
      sumOfRowWeights == sumWeights(items, row)
      lengthOfCommonItemEdge ==
        CommonItemEdge(lengthOfLongerEdge, sumOfRowWeights, Len(row), eng)
  IN  [items |->
         [j \in 1..Len(items) |->
            IF InRow(row, j)
            THEN LET r == ItemRect(items, row, RowIndexOf(row, j),
                                   lengthOfShorterEdge, bounds, eng)
                 IN  [weight |-> items[j].weight,
                      x |-> r.x, y |-> r.y, width |-> r.width, height |-> r.height,
                      assigned |-> items[j].assigned + Cardinality(Occurrences(row, j))]
            ELSE items[j]],
       bounds |-> updateBoundsForNextRow(bounds, lengthOfCommonItemEdge),
       eng |-> [totalRemainingWeightSum |->
                  TotalRemainingAfter(eng.totalRemainingWeightSum, sumOfRowWeights),
                itemsRemaining |->
                  ItemsRemainingAfter(eng.itemsRemaining, Len(row))]]

---------------------------------------------------------------------------
(* The body of squarify.  A frame holds the locals of one call, the items  *)
(* and the bounds object it was given, and three history fields that the   *)
(* program does not have: bounds0 (the bounds as passed), rows (the rows   *)
(* handed to layoutRow, in order) and probe (the last call of              *)
(* calculateWorstAspectRatioInRow: its arguments, the fields it read and   *)
(* its result).                                                            *)

NoProbe ==
  [row |-> <<>>, lengthOfShorterEdge |-> Undefined, bounds |-> Undefined,
   eng |-> Undefined, value |-> Undefined]

NewItem(w) ==
  [weight |-> Num(w), x |-> Undefined, y |-> Undefined, width |-> Undefined,
   height |-> Undefined, assigned |-> 0]

NewBounds(x, y, w, h) ==
  [x |-> Num(x), y |-> Num(y), width |-> Num(w), height |-> Num(h)]

(* A call that has not started: squarify(items, bounds) with these weights. *)
ReadyFrame(ws, b) ==
  [pc |-> "ready",
   items |-> [j \in 1..Len(ws) |-> NewItem(ws[j])],
   bounds |-> b,
   sorted |-> <<>>,
   row |-> <<>>,
   lastAspectRatio |-> Undefined,
   lengthOfShorterEdge |-> Undefined,
   bounds0 |-> b,
   rows |-> <<>>,
   probe |-> NoProbe]

(* Variant: lastAspectRatio starts at 0. *)
SquarifyEntryLastZero(f) ==
  LET sorted == SortDescending(f.items)
  IN  [frame |-> [f EXCEPT !.pc = "loop",
                           !.sorted = sorted,
                           !.lastAspectRatio = Zero,
                           !.lengthOfShorterEdge = Min(f.bounds.width, f.bounds.height),
                           !.row = <<>>],
       eng |-> [totalRemainingWeightSum |-> sumWeights(f.items, sorted),
                itemsRemaining |-> Num(Len(sorted))]]

(* Lines 66-75. *)
SquarifyEntry(f) ==
  LET sorted == SortDescending(f.items)
  IN  [frame |-> [f EXCEPT !.pc = "loop",
                           !.sorted = sorted,
                           !.lastAspectRatio = POSITIVE_INFINITY,
                           !.lengthOfShorterEdge = Min(f.bounds.width, f.bounds.height),
                           !.row = <<>>],
       eng |-> [totalRemainingWeightSum |-> sumWeights(f.items, sorted),
                itemsRemaining |-> Num(Len(sorted))]]

(* Variant: a rejection does not draw the row. *)
DrawRowOnlyWhenLast(accepted, sortedLength) == sortedLength = 0

(* drawRow after the if of lines 86-95. *)
DrawRow(accepted, sortedLength) == IF accepted THEN sortedLength = 0 ELSE TRUE

(* The condition of line 86. *)
Accepts(lastAspectRatio, aspectRatio) ==
  Geq(lastAspectRatio, aspectRatio) \/ isNaN(aspectRatio)

(* One iteration of the while loop, lines 78-112. *)
LoopBody(f, eng) ==
  LET nextItem == Head(f.sorted)
      sorted1 == Tail(f.sorted)
      row1 == Append(f.row, nextItem)
      aspectRatio ==
        calculateWorstAspectRatioInRow(f.items, row1, f.lengthOfShorterEdge,
                                       f.bounds, eng)
      probe == [row |-> row1, lengthOfShorterEdge |-> f.lengthOfShorterEdge,
                bounds |-> f.bounds, eng |-> eng, value |-> aspectRatio]
      accepted == Accepts(f.lastAspectRatio, aspectRatio)
      sorted2 == IF accepted THEN sorted1 ELSE <<row1[Len(row1)]>> \o sorted1
      row2 == IF accepted THEN row1 ELSE SubSeq(row1, 1, Len(row1) - 1)
      last2 == IF accepted THEN aspectRatio ELSE f.lastAspectRatio
      drawRow == DrawRow(accepted, Len(sorted2))
      laid == layoutRow(f.items, row2, f.lengthOfShorterEdge, f.bounds, eng)
  IN  IF aspectRatio = ThrowEmptyRow
      THEN [frame |-> [f EXCEPT !.pc = "error", !.sorted = sorted1, !.row = row1,
                                !.probe = probe],
            eng |-> eng]
      ELSE IF drawRow
      THEN [frame |-> [f EXCEPT !.items = laid.items,
                                !.bounds = laid.bounds,
                                !.sorted = sorted2,
                                !.row = <<>>,
                                !.lastAspectRatio = POSITIVE_INFINITY,
                                !.lengthOfShorterEdge =
                                   Min(laid.bounds.width, laid.bounds.height),
                                !.rows = Append(f.rows, row2),
                                !.probe = probe],
            eng |-> laid.eng]
      ELSE [frame |-> [f EXCEPT !.sorted = sorted2, !.row = row2,
                                !.lastAspectRatio = last2, !.probe = probe],
            eng |-> eng]

(* squarify from a state of its loop to its return, run on its own. *)
RECURSIVE RunLoop(_, _)
RunLoop(f, eng) ==
  IF f.pc # "loop" THEN f
  ELSE IF Len(f.sorted) = 0 THEN [f EXCEPT !.pc = "done"]
  ELSE LET s == LoopBody(f, eng) IN RunLoop(s.frame, s.eng)

---------------------------------------------------------------------------
(* The state machine. *)

Calls == DOMAIN call

Instances == {1, 2}

(* Variant: the two fields are shared by all SquarifyLayout objects. *)
EngineOfShared(c) == 1

(* The SquarifyLayout object call c was made on, whose fields of lines     *)
(* 53-54 the call reads and writes.                                        *)
EngineOf(c) == inst[c]

WeightLists(n) == UNION {[1..k -> 0..MaxWeight] : k \in 0..n}

BoundsSet ==
  {NewBounds(o, 2 * o, w, h) : o \in {0, MaxOrigin}, w \in 0..MaxDim, h \in 0..MaxDim}

ConcWeightLists == UNION {[1..k -> 0..MaxConcWeight] : k \in 0..MaxConcItems}

ConcEqualWeightLists ==
  {[j \in 1..k |-> w] : k \in 0..MaxConcItems, w \in 0..MaxConcWeight}

NewEngine == [totalRemainingWeightSum |-> Zero, itemsRemaining |-> Zero]

(* One call on one engine. *)
Init ==
  /\ \E ws \in WeightLists(MaxItems), b \in BoundsSet :
       call = [c \in {1} |-> ReadyFrame(ws, b)]
  /\ inst = [c \in {1} |-> 1]
  /\ engine = [i \in Instances |-> NewEngine]
  /\ steps = [c \in {1} |-> 0]

(* One call on one engine, with more items, given heaviest first, and      *)
(* bounds of positive width and height.                                    *)
InitLong ==
  /\ \E ws \in {l \in WeightLists(MaxLongItems) :
                   \A i \in 1..(Len(l) - 1) : l[i] >= l[i + 1]},
        w \in 1..MaxDim, h \in 1..MaxDim :
       call = [c \in {1} |-> ReadyFrame(ws, NewBounds(0, 0, w, h))]
  /\ inst = [c \in {1} |-> 1]
  /\ engine = [i \in Instances |-> NewEngine]
  /\ steps = [c \in {1} |-> 0]

(* Two calls, each with its own items and bounds, on one or on two         *)
(* engines; the items of the second call have equal weights.               *)
InitConc ==
  /\ \E ws1 \in ConcWeightLists, ws2 \in ConcEqualWeightLists,
        b1 \in {NewBounds(0, 0, 2, 1)}, b2 \in {NewBounds(1, 1, 1, 2)} :
       call = [c \in {1, 2} |-> IF c = 1 THEN ReadyFrame(ws1, b1)
                                 ELSE ReadyFrame(ws2, b2)]
  /\ inst \in {[c \in {1, 2} |-> 1], [c \in {1, 2} |-> c]}
  /\ engine = [i \in Instances |-> NewEngine]
  /\ steps = [c \in {1, 2} |-> 0]

Call(c) ==
  /\ call[c].pc = "ready"
  /\ LET s == SquarifyEntry(call[c])
     IN  /\ call' = [call EXCEPT ![c] = s.frame]
         /\ engine' = [engine EXCEPT ![EngineOf(c)] = s.eng]
  /\ steps' = [steps EXCEPT ![c] = @ + 1]
  /\ UNCHANGED inst

LoopIteration(c) ==
  /\ call[c].pc = "loop"
  /\ Len(call[c].sorted) > 0
  /\ steps[c] < MaxSteps
  /\ LET s == LoopBody(call[c], engine[EngineOf(c)])
     IN  /\ call' = [call EXCEPT ![c] = s.frame]
         /\ engine' = [engine EXCEPT ![EngineOf(c)] = s.eng]
  /\ steps' = [steps EXCEPT ![c] = @ + 1]
  /\ UNCHANGED inst

Return(c) ==
  /\ call[c].pc = "loop"
  /\ Len(call[c].sorted) = 0
  /\ call' = [call EXCEPT ![c].pc = "done"]
  /\ steps' = [steps EXCEPT ![c] = @ + 1]
  /\ UNCHANGED <<engine, inst>>

SomeCall == \E c \in Calls : Call(c)

SomeLoopIteration == \E c \in Calls : LoopIteration(c)

SomeReturn == \E c \in Calls : Return(c)

Next == SomeCall \/ SomeLoopIteration \/ SomeReturn

Spec == Init /\ [][Next]_vars

(* squarify is synchronous: a call that has a step to take takes it.  A   *)
(* call can step exactly when CanStep holds, and every step of Next adds   *)
(* one to steps, so the condition is weak fairness of Next, stated on      *)
(* steps alone.                                                            *)
CanStep(c) ==
  \/ call[c].pc = "ready"
  \/ /\ call[c].pc = "loop"
     /\ Len(call[c].sorted) = 0 \/ steps[c] < MaxSteps

SomeStep == \E c \in Calls : CanStep(c) /\ steps' = [steps EXCEPT ![c] = @ + 1]

SpecFair == Init /\ [][Next]_vars /\ WF_steps(SomeStep)

SpecLong == InitLong /\ [][Next]_vars

SpecConc == InitConc /\ [][Next]_vars

---------------------------------------------------------------------------
(* Vocabulary of the properties. *)

Done(f) == f.pc = "done"

ItemIds(f) == 1..Len(f.items)

PositiveTotalWeight(f) == \E j \in ItemIds(f) : Gt(f.items[j].weight, Zero)

AllWeightsZero(f) == \A j \in ItemIds(f) : f.items[j].weight = Zero

PositiveBounds(b) == Gt(b.width, Zero) /\ Gt(b.height, Zero)

ZeroEdgeBounds(b) == b.width = Zero \/ b.height = Zero

AreaOf(r) == Mul(r.width, r.height)

RECURSIVE SumOfAreas(_, _)
SumOfAreas(items, n) ==
  IF n = 0 THEN Zero ELSE Add(SumOfAreas(items, n - 1), AreaOf(items[n]))

RECURSIVE Placements(_, _)
Placements(rows, n) ==
  IF n = 0 THEN 0 ELSE Placements(rows, n - 1) + Len(rows[n])

Right(r) == Add(r.x, r.width)

Bottom(r) == Add(r.y, r.height)

Inside(r, b) ==
  /\ Geq(r.width, Zero) /\ Geq(r.height, Zero)
  /\ Geq(r.x, b.x) /\ Geq(r.y, b.y)
  /\ Geq(Right(b), Right(r)) /\ Geq(Bottom(b), Bottom(r))

InteriorsOverlap(r, q) ==
  /\ Gt(r.width, Zero) /\ Gt(r.height, Zero)
  /\ Gt(q.width, Zero) /\ Gt(q.height, Zero)
  /\ Lt(r.x, Right(q)) /\ Lt(q.x, Right(r))
  /\ Lt(r.y, Bottom(q)) /\ Lt(q.y, Bottom(r))

(* The grid the edges of the rectangles and of the bounds cut the plane   *)
(* into: every point of the bounds lies in the closure of a cell of it.    *)
GridX(f) ==
  {f.bounds0.x, Right(f.bounds0)}
    \cup {f.items[j].x : j \in ItemIds(f)} \cup {Right(f.items[j]) : j \in ItemIds(f)}

GridY(f) ==
  {f.bounds0.y, Bottom(f.bounds0)}
    \cup {f.items[j].y : j \in ItemIds(f)} \cup {Bottom(f.items[j]) : j \in ItemIds(f)}

Cells(G, lo, hi) ==
  {p \in G \X G : /\ Lt(p[1], p[2]) /\ Geq(p[1], lo) /\ Geq(hi, p[2])
                  /\ ~\E g \in G : Lt(p[1], g) /\ Lt(g, p[2])}

Mid(p) == Div(Add(p[1], p[2]), Num(2))

StrictlyInside(px, py, r) ==
  Lt(r.x, px) /\ Lt(px, Right(r)) /\ Lt(r.y, py) /\ Lt(py, Bottom(r))

NoGaps(f) ==
  \A cx \in Cells(GridX(f), f.bounds0.x, Right(f.bounds0)),
     cy \in Cells(GridY(f), f.bounds0.y, Bottom(f.bounds0)) :
    \E j \in ItemIds(f) : StrictlyInside(Mid(cx), Mid(cy), f.items[j])

Tiles(f) ==
  /\ \A j \in ItemIds(f) : Inside(f.items[j], f.bounds0)
  /\ \A j, k \in ItemIds(f) : j # k => ~InteriorsOverlap(f.items[j], f.items[k])
  /\ NoGaps(f)

AspectRatio(r) == Max(Div(r.width, r.height), Div(r.height, r.width))

(* The largest aspect ratio among the first k rectangles layoutRow would   *)
(* write for the probed row in the probed state.                           *)
RECURSIVE WorstLaidOut(_, _, _)
WorstLaidOut(items, p, k) ==
  LET a == AspectRatio(ItemRect(items, p.row, k, p.lengthOfShorterEdge, p.bounds, p.eng))
  IN  IF k = 1 THEN a ELSE Max(WorstLaidOut(items, p, k - 1), a)

Unassigned(f) == {j \in ItemIds(f) : f.items[j].assigned = 0}

(* What the call writes onto its items when it runs alone from the start. *)
SoloItems(f) ==
  LET s == SquarifyEntry(ReadyFrame([j \in ItemIds(f) |-> f.items[j].weight[1]],
                                    f.bounds0))
  IN  RunLoop(s.frame, s.eng).items

---------------------------------------------------------------------------
(* The properties. *)

(* C1: with non-negative weights of positive total and bounds of positive  *)
(* width and height, the rectangles squarify leaves on the items tile the  *)
(* bounds as passed: each lies inside, no two interiors overlap, and no    *)
(* point of the bounds is uncovered.                                       *)
C1_TilesOriginalBounds ==
  \A c \in Calls :
    (Done(call[c]) /\ PositiveTotalWeight(call[c]) /\ PositiveBounds(call[c].bounds0))
      => Tiles(call[c])

C1_Witness ==
  \E c \in Calls :
    /\ Done(call[c]) /\ PositiveBounds(call[c].bounds0)
    /\ Len(call[c].items) = 3 /\ Len(call[c].rows) = 3
    /\ call[c].items[1].weight = Zero /\ Gt(call[c].items[2].weight, Zero)
    /\ call[c].bounds0.x # Zero

(* C2: the areas of any two items of positive weight are in the ratio of   *)
(* their weights: a1 * w2 = a2 * w1.                                       *)
C2_AreasProportional ==
  \A c \in Calls :
    Done(call[c]) =>
      \A j, k \in ItemIds(call[c]) :
        (Gt(call[c].items[j].weight, Zero) /\ Gt(call[c].items[k].weight, Zero))
          => Mul(AreaOf(call[c].items[j]), call[c].items[k].weight)
               = Mul(AreaOf(call[c].items[k]), call[c].items[j].weight)

C2_Witness ==
  \E c \in Calls :
    /\ Done(call[c]) /\ PositiveBounds(call[c].bounds0)
    /\ Len(call[c].rows) >= 2
    /\ \E j, k \in ItemIds(call[c]) :
         /\ Lt(Zero, call[c].items[j].weight)
         /\ Lt(call[c].items[j].weight, call[c].items[k].weight)
         /\ \E n \in 1..Len(call[c].rows) :
              InRow(call[c].rows[n], j) /\ ~InRow(call[c].rows[n], k)

(* C3: with positive total weight the areas of the rectangles add up to    *)
(* the area of the bounds as passed.                                       *)
C3_AreaConserved ==
  \A c \in Calls :
    (Done(call[c]) /\ PositiveTotalWeight(call[c]))
      => SumOfAreas(call[c].items, Len(call[c].items))
           = Mul(call[c].bounds0.width, call[c].bounds0.height)

C3_Witness ==
  \E c \in Calls :
    /\ Done(call[c]) /\ PositiveBounds(call[c].bounds0)
    /\ Len(call[c].items) = 3 /\ Len(call[c].rows) = 2
    /\ \A j \in ItemIds(call[c]) : Gt(call[c].items[j].weight, Zero)

(* C4: no item is laid out twice, an item has a rectangle exactly when it  *)
(* was laid out; between rows itemsRemaining is the number of items not    *)
(* yet laid out; at the return every item was laid out once and            *)
(* itemsRemaining is 0.                                                    *)
C4_EachItemOnce ==
  \A c \in Calls :
    /\ \A j \in ItemIds(call[c]) :
         /\ call[c].items[j].assigned <= 1
         /\ call[c].items[j].assigned = 0 <=> call[c].items[j].width = Undefined
    /\ (call[c].pc = "loop" /\ call[c].row = <<>>)
         => engine[EngineOf(c)].itemsRemaining = Num(Cardinality(Unassigned(call[c])))
    /\ Done(call[c])
         => /\ Unassigned(call[c]) = {}
            /\ engine[EngineOf(c)].itemsRemaining = Zero

C4_Witness ==
  \E c \in Calls :
    /\ call[c].pc = "loop" /\ call[c].row = <<>>
    /\ Len(call[c].rows) = 1 /\ Len(call[c].rows[1]) = 2
    /\ Cardinality(Unassigned(call[c])) = 1
    /\ Len(call[c].probe.row) = 3

(* C5 as stated: with bounds of zero width or height and two or more       *)
(* items every probe returns the maximal value and every row handed to     *)
(* layoutRow holds exactly one item, so there are as many rows as items.   *)
C5_EveryItemItsOwnRow ==
  \A c \in Calls :
    (Done(call[c]) /\ ZeroEdgeBounds(call[c].bounds0) /\ Len(call[c].items) >= 2)
      => /\ call[c].probe.value = MAX_VALUE
         /\ Len(call[c].rows) = Len(call[c].items)
         /\ \A n \in 1..Len(call[c].rows) : Len(call[c].rows[n]) = 1

(* C5 as amended: with bounds of zero width or height every probe returns  *)
(* the maximal value, which line 86 accepts (MAX_VALUE >= MAX_VALUE), so   *)
(* all items are gathered in one row: layoutRow is called once, with       *)
(* every item.                                                             *)
C5_OneRowOfAllItems ==
  \A c \in Calls :
    /\ (call[c].pc \in {"loop", "done"} /\ ZeroEdgeBounds(call[c].bounds0)
          /\ call[c].probe # NoProbe)
         => call[c].probe.value = MAX_VALUE
    /\ (Done(call[c]) /\ ZeroEdgeBounds(call[c].bounds0) /\ Len(call[c].items) >= 2)
         => /\ Len(call[c].rows) = 1
            /\ Len(call[c].rows[1]) = Len(call[c].items)

C5_Witness ==
  \E c \in Calls :
    /\ Done(call[c]) /\ call[c].bounds0.width = Zero /\ Gt(call[c].bounds0.height, Zero)
    /\ Len(call[c].items) = 3 /\ PositiveTotalWeight(call[c])
    /\ Len(call[c].rows) = 1

(* C6: when every weight is 0, each of the n >= 1 items ends with the area *)
(* (width * height of the bounds as passed) / n.                           *)
C6_ZeroWeightsEqualAreas ==
  \A c \in Calls :
    (Done(call[c]) /\ AllWeightsZero(call[c]))
      => \A j \in ItemIds(call[c]) :
           AreaOf(call[c].items[j])
             = Div(Mul(call[c].bounds0.width, call[c].bounds0.height),
                   Num(Len(call[c].items)))

C6_Witness ==
  \E c \in Calls :
    /\ Done(call[c]) /\ AllWeightsZero(call[c]) /\ PositiveBounds(call[c].bounds0)
    /\ Len(call[c].items) = 3 /\ Len(call[c].rows) = 2

(* C7 as stated: two calls that share neither items nor bounds do not      *)
(* interfere: however their steps interleave, each call that has started   *)
(* is on the way to the rectangles it writes when run alone.               *)
C7_NoInterference ==
  \A c \in Calls :
    call[c].pc \in {"loop", "done"}
      => RunLoop(call[c], engine[EngineOf(c)]).items = SoloItems(call[c])

(* C7 as amended: totalRemainingWeightSum and itemsRemaining are fields of *)
(* the SquarifyLayout object; two calls made on different objects, that    *)
(* share neither items nor bounds, do not interfere.                       *)
C7_NoInterferenceAcrossInstances ==
  (\A c, d \in Calls : c # d => inst[c] # inst[d])
    => \A c \in Calls :
         call[c].pc \in {"loop", "done"}
           => RunLoop(call[c], engine[EngineOf(c)]).items = SoloItems(call[c])

C7_Witness ==
  /\ Calls = {1, 2} /\ inst[1] # inst[2]
  /\ \A c \in Calls :
       /\ call[c].pc = "loop" /\ Len(call[c].rows) = 1 /\ Len(call[c].sorted) = 1
       /\ PositiveTotalWeight(call[c])

(* C8: the empty-row error is unreachable: no probe sees an empty row, no  *)
(* empty row is handed to layoutRow, and the first item of a fresh row is  *)
(* accepted (it stays in the row, or the row is laid out with it).         *)
C8_EmptyRowUnreachable ==
  \A c \in Calls :
    /\ call[c].pc # "error"
    /\ call[c].probe.value # ThrowEmptyRow
    /\ call[c].probe # NoProbe => Len(call[c].probe.row) >= 1
    /\ \A n \in 1..Len(call[c].rows) : Len(call[c].rows[n]) >= 1
    /\ (call[c].probe # NoProbe /\ Len(call[c].probe.row) = 1)
         => \/ call[c].row = call[c].probe.row
            \/ /\ Len(call[c].rows) >= 1
               /\ call[c].rows[Len(call[c].rows)] = call[c].probe.row

C8_Witness ==
  \E c \in Calls :
    /\ call[c].pc = "loop" /\ Len(call[c].probe.row) = 1
    /\ call[c].row = call[c].probe.row
    /\ Len(call[c].rows) = 1
    /\ call[c].probe.value # MAX_VALUE

(* C9: the loop ends: the call returns with the working list and the row   *)
(* empty, after at most n rows, exactly n placements and at most 2n        *)
(* iterations (an item is rejected at most once).                          *)
C9_Terminates ==
  <>(\A c \in Calls :
       /\ Done(call[c])
       /\ call[c].sorted = <<>> /\ call[c].row = <<>>
       /\ Len(call[c].rows) <= Len(call[c].items)
       /\ Placements(call[c].rows, Len(call[c].rows)) = Len(call[c].items)
       /\ steps[c] <= 2 * Len(call[c].items) + 2)

C9_Witness ==
  \E c \in Calls :
    /\ Done(call[c]) /\ Len(call[c].items) = 3 /\ Len(call[c].rows) = 3
    /\ PositiveBounds(call[c].bounds0)
    /\ \A j \in ItemIds(call[c]) : Gt(call[c].items[j].weight, Zero)

(* C10: for a probe with remaining bounds of positive width and height the *)
(* value of calculateWorstAspectRatioInRow is the largest aspect ratio     *)
(* max(width/height, height/width) among the rectangles layoutRow would    *)
(* write for that row in that state, so it bounds each of them.            *)
C10_ProbeIsWorstLaidOutRatio ==
  \A c \in Calls :
    (call[c].probe # NoProbe /\ call[c].probe.value # ThrowEmptyRow
       /\ PositiveBounds(call[c].probe.bounds))
      => /\ call[c].probe.value
              = WorstLaidOut(call[c].items, call[c].probe, Len(call[c].probe.row))
         /\ \A i \in 1..Len(call[c].probe.row) :
              Geq(call[c].probe.value,
                  AspectRatio(ItemRect(call[c].items, call[c].probe.row, i,
                                       call[c].probe.lengthOfShorterEdge,
                                       call[c].probe.bounds, call[c].probe.eng)))

C10_Witness ==
  \E c \in Calls :
    /\ call[c].probe # NoProbe
    /\ PositiveBounds(call[c].probe.bounds)
    /\ Len(call[c].probe.row) = 2
    /\ Lt(call[c].items[call[c].probe.row[2]].weight,
          call[c].items[call[c].probe.row[1]].weight)
    /\ LET r == ItemRect(call[c].items, call[c].probe.row, 1,
                         call[c].probe.lengthOfShorterEdge,
                         call[c].probe.bounds, call[c].probe.eng)
           q == ItemRect(call[c].items, call[c].probe.row, 2,
                         call[c].probe.lengthOfShorterEdge,
                         call[c].probe.bounds, call[c].probe.eng)
       IN  /\ Lt(AspectRatio(q), AspectRatio(r))
           /\ call[c].probe.value = AspectRatio(r)

===========================================================================
